---- MODULE Spec2Model ----
(***************************************************************************)
(* Component tree of python/component.py.                                  *)
(*                                                                         *)
(* The Python class Component is a thin wrapper: every method passes the   *)
(* wrapper's handle to a BNComponent* function of the core, and every      *)
(* value the core hands back is wrapped again (Component, Function,        *)
(* DataVariable, Type).  The core itself, the store entry points of the    *)
(* BinaryView (create, lookup, destroy) and Component.add_component /      *)
(* remove_component (called by the embedded tests, not defined in the      *)
(* class) are not part of the source file; they are modelled from the      *)
(* specification.                                                          *)
(***************************************************************************)
EXTENDS Integers, Sequences, FiniteSets, TLC

\* ------------------------------------------------------------- bounds
\* Number of components the store may ever create (GUIDs 1..MaxNodes).
MaxNodes == 4
\* Number of components created in the specifications that also add and
\* remove functions.
MaxMemberNodes == 3
\* Number of functions of the analysis database.
MaxFuncs == 2
\* Number of functions added when renaming is among the operations.
MaxNamedFuncs == 1

Nodes == 1..MaxNodes
Funcs == 1..MaxFuncs
NoNode == 0

VARIABLES
    nextGuid,   \* number of components created so far by the store
    cguid,      \* core: GUID of each component slot (0: not created)
    registry,   \* store: the components a lookup can find (live ones)
    cparent,    \* core: parent back-reference of each component (NoNode: none)
    cchildren,  \* core: ordered children of each component
    cfuncs,     \* core: ordered direct function references of each component
    cname,      \* core: display name of each component
    last,       \* the last call of the scripting layer and what it returned
    it,         \* the iterator a caller holds over components or functions
    dvArray     \* the array of the latest get_referenced_data_variables call

vars == <<nextGuid, cguid, registry, cparent, cchildren, cfuncs, cname, last,
          it, dvArray>>
core == <<nextGuid, cguid, registry, cparent, cchildren, cfuncs, cname>>
\* what is in flight besides the calls of the six tree and membership
\* operations
inflight == <<it, dvArray>>

\* the placeholder name of a new component and the name the tests set
DefaultName == ""
Names == {"ACoolName"}

\* ------------------------------------------------------- sequence helpers
Range(s) == {s[i] : i \in 1..Len(s)}
Count(s, x) == Cardinality({i \in 1..Len(s) : s[i] = x})
Without(s, x) == SelectSeq(s, LAMBDA y : y # x)

RECURSIVE Dedup(_)
\* s without repeated entries, first occurrences kept in order
Dedup(s) ==
    IF s = <<>> THEN <<>>
    ELSE LET r == Dedup(SubSeq(s, 1, Len(s) - 1))
         IN  IF s[Len(s)] \in Range(r) THEN r ELSE Append(r, s[Len(s)])

RECURSIVE Flatten(_)
\* concatenation of a sequence of sequences
Flatten(ss) == IF ss = <<>> THEN <<>> ELSE Head(ss) \o Flatten(Tail(ss))

\* ------------------------------------------------ analysis database (external)
\* The data variables and the types each function of the database references:
\* function f references its own data variable f and one shared with f+1, its own
\* type f and the type 0 every function uses.
DataVarsOf(f) == <<f, f + 1>>
TypesOf(f) == <<0, f>>

\* ----------------------------------------------------------- core handles
\* A BNComponent* is a counted reference: every core call that returns a
\* component hands out a reference of its own to the same component.
NewComponentRef(n, origin) == [comp |-> n, ref |-> origin]
NullHandle == [comp |-> NoNode, ref |-> "null"]
FunctionRef(f, origin) == [func |-> f, ref |-> origin]

\* ------------------------------------------------- core: read-only calls
\* (BNComponent* functions of the core, modelled from the specification)

RECURSIVE DescIter(_, _)
\* the nodes reached from the set S over children links in at most k rounds
DescIter(S, k) ==
    IF k = 0 THEN S
    ELSE DescIter(S \cup UNION {Range(cchildren[m]) : m \in S}, k - 1)

\* the subtree below n: children, grandchildren, ...
Descendants(n) == DescIter(Range(cchildren[n]), MaxNodes)

RECURSIVE Preorder(_, _)
\* n and the nodes below it, parents first, children in their order
Preorder(n, k) ==
    IF k = 0 THEN <<n>>
    ELSE <<n>> \o Flatten([i \in 1..Len(cchildren[n]) |-> Preorder(cchildren[n][i], k - 1)])

BNComponentGetGuid(h) == cguid[h.comp]

BNComponentsEqual(a, b) == cguid[a.comp] = cguid[b.comp]

BNComponentsNotEqual(a, b) == cguid[a.comp] # cguid[b.comp]

BNComponentGetName(h) == cname[h.comp]

\* the name is set on a live component only
BNComponentSetName(h, name) ==
    IF h.comp \notin registry THEN cname ELSE [cname EXCEPT ![h.comp] = name]

BNComponentGetParent(h) ==
    IF cparent[h.comp] = NoNode THEN NullHandle
    ELSE NewComponentRef(cparent[h.comp], "parent")

\* the array of children and the count written through the out-parameter
BNComponentGetContainedComponents(h) ==
    [count |-> Len(cchildren[h.comp]),
     array |-> [i \in 1..Len(cchildren[h.comp]) |->
                    NewComponentRef(cchildren[h.comp][i], "child")]]

BNComponentGetContainedFunctions(h) ==
    [count |-> Len(cfuncs[h.comp]),
     array |-> [i \in 1..Len(cfuncs[h.comp]) |->
                    FunctionRef(cfuncs[h.comp][i], "contained")]]

BNComponentContainsFunction(h, fh) == fh.func \in Range(cfuncs[h.comp])

BNComponentContainsComponent(h, ch) == ch.comp \in Descendants(h.comp)

\* derived references of one node: recomputed from its direct functions
DirectDataVars(n) == Dedup(Flatten([i \in 1..Len(cfuncs[n]) |-> DataVarsOf(cfuncs[n][i])]))
DirectTypes(n) == Dedup(Flatten([i \in 1..Len(cfuncs[n]) |-> TypesOf(cfuncs[n][i])]))

BNComponentGetReferencedDataVariables(h) ==
    LET s == DirectDataVars(h.comp)
    IN  [count |-> Len(s), array |-> [i \in 1..Len(s) |-> [address |-> s[i]]]]

BNComponentGetReferencedDataVariablesRecursive(h) ==
    LET order == Preorder(h.comp, MaxNodes)
        s == Dedup(Flatten([i \in 1..Len(order) |-> DirectDataVars(order[i])]))
    IN  [count |-> Len(s), array |-> [i \in 1..Len(s) |-> [address |-> s[i]]]]

BNComponentGetReferencedTypes(h) ==
    LET s == DirectTypes(h.comp)
    IN  [count |-> Len(s), array |-> [i \in 1..Len(s) |-> [type |-> s[i]]]]

BNComponentGetReferencedTypesRecursive(h) ==
    LET order == Preorder(h.comp, MaxNodes)
        s == Dedup(Flatten([i \in 1..Len(order) |-> DirectTypes(order[i])]))
    IN  [count |-> Len(s), array |-> [i \in 1..Len(s) |-> [type |-> s[i]]]]

\* ------------------------------------------------- core: mutating calls
\* Each returns the call's result and the fields it leaves behind.

BNComponentAddFunctionReference(h, fh) ==
    IF h.comp \notin registry THEN [ret |-> FALSE, funcs |-> cfuncs]
    ELSE IF fh.func \in Range(cfuncs[h.comp]) THEN [ret |-> TRUE, funcs |-> cfuncs]
    ELSE [ret |-> TRUE,
          funcs |-> [cfuncs EXCEPT ![h.comp] = Append(@, fh.func)]]

BNComponentRemoveFunctionReference(h, fh) ==
    IF h.comp \notin registry \/ fh.func \notin Range(cfuncs[h.comp])
    THEN [ret |-> FALSE, funcs |-> cfuncs]
    ELSE [ret |-> TRUE,
          funcs |-> [cfuncs EXCEPT ![h.comp] = Without(@, fh.func)]]

BNComponentAddComponent(h, ch) ==
    LET p == h.comp
        c == ch.comp
    IN  IF \/ p \notin registry \/ c \notin registry
           \/ c = p
           \/ p \in Descendants(c)
        THEN [ret |-> FALSE, parent |-> cparent, children |-> cchildren]
        ELSE IF cparent[c] = p
        THEN [ret |-> TRUE, parent |-> cparent, children |-> cchildren]
        ELSE [ret |-> TRUE,
              parent |-> [cparent EXCEPT ![c] = p],
              children |-> [m \in Nodes |->
                              IF m = p THEN Append(cchildren[m], c)
                              ELSE IF m = cparent[c] THEN Without(cchildren[m], c)
                              ELSE cchildren[m]]]

BNComponentRemoveComponent(h, ch) ==
    LET p == h.comp
        c == ch.comp
    IN  IF p \notin registry \/ c \notin registry \/ cparent[c] # p
        THEN [ret |-> FALSE, parent |-> cparent, children |-> cchildren]
        ELSE [ret |-> TRUE,
              parent |-> [cparent EXCEPT ![c] = NoNode],
              children |-> [cchildren EXCEPT ![p] = Without(@, c)]]

\* ------------------------------------------------------ store entry points
\* (BinaryView.create_component / get_component / remove_component; modelled
\* from the specification's ComponentStore)

View == [kind |-> "BinaryView"]
None == [kind |-> "None"]

\* destroy: the node leaves its parent's children and the registry; its children
\* are orphaned or destroyed with it, as the caller chooses; a destroyed node keeps
\* nothing but its GUID
StoreDestroy(n, recursive) ==
    IF n \notin registry
    THEN [ret |-> FALSE, registry |-> registry, parent |-> cparent,
          children |-> cchildren, funcs |-> cfuncs, name |-> cname]
    ELSE LET gone == IF recursive THEN {n} \cup Descendants(n) ELSE {n}
         IN  [ret |-> TRUE,
              registry |-> registry \ gone,
              parent |-> [m \in Nodes |->
                            IF m \in gone \/ cparent[m] \in gone THEN NoNode
                            ELSE cparent[m]],
              children |-> [m \in Nodes |->
                              IF m \in gone THEN <<>>
                              ELSE SelectSeq(cchildren[m], LAMBDA c : c \notin gone)],
              funcs |-> [m \in Nodes |-> IF m \in gone THEN <<>> ELSE cfuncs[m]],
              name |-> [m \in Nodes |-> IF m \in gone THEN DefaultName ELSE cname[m]]]

\* ------------------------------------------------------ class Component
\* Python's truth values next to NotImplemented
PyBool(b) == [implemented |-> TRUE, value |-> b]
NotImplemented == [implemented |-> FALSE, value |-> FALSE]

AssertionError == [kind |-> "AssertionError"]

\* __init__: asserts that a view and a handle are given, keeps both and caches
\* the GUID of the handle (a NULL handle reaches Python as None)
\* mutant of Component: the GUID is not read from the core at construction
Component_no_guid(view, handle) ==
    IF view = None \/ handle = NullHandle THEN AssertionError
    ELSE [kind |-> "Component", view |-> view, handle |-> handle,
          guid |-> NoNode]
Component(view, handle) ==
    IF view = None \/ handle = NullHandle THEN AssertionError
    ELSE [kind |-> "Component", view |-> view, handle |-> handle,
          guid |-> BNComponentGetGuid(handle)]

\* function.Function(view, handle)
Function(view, handle) == [kind |-> "Function", view |-> view, handle |-> handle]

isinstanceComponent(x) == x.kind = "Component"

\* mutant of __eq__: the handle is compared with itself
__eq___own_handle(self, other) ==
    IF ~isinstanceComponent(other) THEN NotImplemented
    ELSE PyBool(BNComponentsEqual(self.handle, self.handle))

\* mutant of __eq__: the handles themselves are compared, not the components
__eq___by_reference(self, other) ==
    IF ~isinstanceComponent(other) THEN NotImplemented
    ELSE PyBool(self.handle = other.handle)
__eq__(self, other) ==
    IF ~isinstanceComponent(other) THEN NotImplemented
    ELSE PyBool(BNComponentsEqual(self.handle, other.handle))

__ne__(self, other) ==
    IF ~isinstanceComponent(other) THEN NotImplemented
    ELSE PyBool(BNComponentsNotEqual(self.handle, other.handle))

\* mutant of add_function: the core's answer is dropped and success reported
add_function_unchecked(self, func) ==
    [ret |-> TRUE,
     funcs |-> BNComponentAddFunctionReference(self.handle, func.handle).funcs]

add_function(self, func) == BNComponentAddFunctionReference(self.handle, func.handle)

\* mutant of contains_function: the direct children are asked as well
contains_function_with_children(self, func) ==
    \E h \in {self.handle} \cup Range(BNComponentGetContainedComponents(self.handle).array) :
        BNComponentContainsFunction(h, func.handle)
contains_function(self, func) == BNComponentContainsFunction(self.handle, func.handle)

\* mutant of remove_function: the call is forwarded to the core's add

remove_function_as_add(self, func) ==
    BNComponentAddFunctionReference(self.handle, func.handle)
remove_function(self, func) == BNComponentRemoveFunctionReference(self.handle, func.handle)

\* mutant of contains_component: the component is looked for among the
\* direct components only
contains_component_direct(self, component) ==
    \E k \in 1..BNComponentGetContainedComponents(self.handle).count :
        BNComponentsEqual(BNComponentGetContainedComponents(self.handle).array[k],
                          component.handle)
\* mutant of contains_component: the two handles are passed in the other order
contains_component_swapped(self, component) ==
    BNComponentContainsComponent(component.handle, self.handle)
contains_component(self, component) ==
    BNComponentContainsComponent(self.handle, component.handle)

add_component(self, component) == BNComponentAddComponent(self.handle, component.handle)

remove_component(self, component) ==
    BNComponentRemoveComponent(self.handle, component.handle)

\* the name property and its setter (the setter returns nothing)
name(self) == BNComponentGetName(self.handle)

name_setter(self, _name) == BNComponentSetName(self.handle, _name)

\* mutant of parent: the wrapper is built and never returned
parent_no_return(self) ==
    LET bn_component == BNComponentGetParent(self.handle)
    IN  IF bn_component # NullHandle THEN None
        ELSE None
\* mutant of parent: the wrapper is built from self.handle, not from bn_component
parent_of_own_handle(self) ==
    LET bn_component == BNComponentGetParent(self.handle)
    IN  IF bn_component # NullHandle THEN Component(self.view, self.handle)
        ELSE None
parent(self) ==
    LET bn_component == BNComponentGetParent(self.handle)
    IN  IF bn_component # NullHandle THEN Component(self.view, bn_component)
        ELSE None

\* mutant of components: every wrapper is built from the first entry of the array
components_first_entry(self) ==
    LET r == BNComponentGetContainedComponents(self.handle)
    IN  [k \in 1..r.count |-> Component(self.view, r.array[1])]
\* mutant of components: the loop starts at index 1 and skips the first entry
components_skip_first(self) ==
    LET r == BNComponentGetContainedComponents(self.handle)
    IN  [k \in 1..(r.count - 1) |-> Component(self.view, r.array[k + 1])]
\* mutant of components: the loop stops one entry short of count
components_short(self) ==
    LET r == BNComponentGetContainedComponents(self.handle)
    IN  [k \in 1..(r.count - 1) |-> Component(self.view, r.array[k])]
\* one full pass over the iterator of `components` (Python's index i is k - 1)
components(self) ==
    LET r == BNComponentGetContainedComponents(self.handle)
    IN  [k \in 1..r.count |-> Component(self.view, r.array[k])]

\* mutant of functions: every Function is built from the first entry of the array
functions_first_entry(self) ==
    LET r == BNComponentGetContainedFunctions(self.handle)
    IN  [k \in 1..r.count |-> Function(self.view, r.array[1])]
\* one full pass over the iterator of `functions`
functions(self) ==
    LET r == BNComponentGetContainedFunctions(self.handle)
    IN  [k \in 1..r.count |-> Function(self.view, r.array[k])]

\* binaryview.DataVariable.from_core_struct and Type(handle): the opaque values
\* of the analysis database
DataVariable_from_core_struct(bn_data_var, view) ==
    [kind |-> "DataVariable", view |-> view, address |-> bn_data_var.address]
Type(handle) == [kind |-> "Type", handle |-> handle]

\* mutant of get_referenced_data_variables: the two branches are exchanged
get_referenced_data_variables_flipped(self, recursive) ==
    LET r == IF recursive
             THEN BNComponentGetReferencedDataVariables(self.handle)
             ELSE BNComponentGetReferencedDataVariablesRecursive(self.handle)
    IN  [k \in 1..r.count |-> DataVariable_from_core_struct(r.array[k], self.view)]
get_referenced_data_variables(self, recursive) ==
    LET r == IF recursive
             THEN BNComponentGetReferencedDataVariablesRecursive(self.handle)
             ELSE BNComponentGetReferencedDataVariables(self.handle)
    IN  [k \in 1..r.count |-> DataVariable_from_core_struct(r.array[k], self.view)]

\* mutant of get_referenced_types: the recursive flag is ignored
get_referenced_types_flat(self, recursive) ==
    LET r == BNComponentGetReferencedTypes(self.handle)
    IN  [k \in 1..r.count |-> Type(r.array[k])]
get_referenced_types(self, recursive) ==
    LET r == IF recursive
             THEN BNComponentGetReferencedTypesRecursive(self.handle)
             ELSE BNComponentGetReferencedTypes(self.handle)
    IN  [k \in 1..r.count |-> Type(r.array[k])]

\* BinaryView.get_component(guid): a new wrapper of the registered component
get_component(guid) ==
    IF \E n \in registry : cguid[n] = guid
    THEN Component(View, NewComponentRef(CHOOSE n \in registry : cguid[n] = guid, "lookup"))
    ELSE None

\* ------------------------------------------------ Python's == and !=
\* a == b: a.__eq__(b), then the reflected b.__eq__(a), then identity
PyEq(a, b) ==
    LET r1 == IF isinstanceComponent(a) THEN __eq__(a, b) ELSE NotImplemented
        r2 == IF isinstanceComponent(b) THEN __eq__(b, a) ELSE NotImplemented
    IN  IF r1.implemented THEN r1.value
        ELSE IF r2.implemented THEN r2.value
        ELSE a = b

\* a != b: a.__ne__(b), then the reflected b.__ne__(a), then non-identity
PyNe(a, b) ==
    LET r1 == IF isinstanceComponent(a) THEN __ne__(a, b) ELSE NotImplemented
        r2 == IF isinstanceComponent(b) THEN __ne__(b, a) ELSE NotImplemented
    IN  IF r1.implemented THEN r1.value
        ELSE IF r2.implemented THEN r2.value
        ELSE a # b

\* ------------------------------------------------------- the caller's side
\* the nodes created so far, and the wrapper the caller got from create
Created == 1..nextGuid
Held(n) == Component(View, NewComponentRef(n, "created"))
\* the Function objects of the database
Fn(f) == Function(View, FunctionRef(f, "bv"))

\* the call just made: its receiver and argument, what the caller could read
\* just before it (pre), and what it returned
Call(op, self, arg, pre, ret) ==
    [op |-> op, self |-> self, arg |-> arg, pre |-> pre, ret |-> ret]

\* the GUID of the parent the caller reads from node n (0: none)
ParentGuid(n) == IF parent(Held(n)) = None THEN 0 ELSE parent(Held(n)).guid

\* ------------------------------------------------- nothing in flight
NoIterator == [state |-> "none"]
NoArray == [count |-> 0, events |-> <<>>]

\* --------------------------------------------------------------- actions
Init ==
    /\ nextGuid = 0
    /\ cguid = [n \in Nodes |-> 0]
    /\ registry = {}
    /\ cparent = [n \in Nodes |-> NoNode]
    /\ cchildren = [n \in Nodes |-> <<>>]
    /\ cfuncs = [n \in Nodes |-> <<>>]
    /\ cname = [n \in Nodes |-> DefaultName]
    /\ it = NoIterator
    /\ dvArray = NoArray
    /\ last = Call("init", NoNode, 0, 0, TRUE)

\* Each call is given in two parts: what it does to the store and the tree
\* (...Effect), and the record of the call the caller keeps in `last`.

\* store.create: a new node with a fresh GUID, no parent, children or references
CreateEffect(limit) ==
    /\ nextGuid < limit
    /\ LET n == nextGuid + 1
       IN  /\ nextGuid' = n
           /\ cguid' = [cguid EXCEPT ![n] = n]
           /\ registry' = registry \cup {n}
    /\ UNCHANGED <<cparent, cchildren, cfuncs, cname, inflight>>

CreateUpTo(limit) ==
    /\ CreateEffect(limit)
    /\ last' = Call("create", nextGuid + 1, 0, 0, TRUE)

Create == CreateUpTo(MaxNodes)

\* store.destroy(node)
DestroyEffect(n, recursive) ==
    LET r == StoreDestroy(n, recursive)
    IN  /\ registry' = r.registry
        /\ cparent' = r.parent
        /\ cchildren' = r.children
        /\ cfuncs' = r.funcs
        /\ cname' = r.name
        /\ UNCHANGED <<nextGuid, cguid, inflight>>

\* the node is one the store created (live or already destroyed) or one it
\* never created, which it does not know
Destroy ==
    \E n \in Nodes, recursive \in BOOLEAN :
        /\ DestroyEffect(n, recursive)
        /\ last' = Call("destroy", n, IF recursive THEN 1 ELSE 0,
                        IF get_component(Held(n).guid) = None THEN -1
                        ELSE ParentGuid(n), StoreDestroy(n, recursive).ret)

AddFunctionEffect(n, f) ==
    /\ cfuncs' = add_function(Held(n), Fn(f)).funcs
    /\ UNCHANGED <<nextGuid, cguid, registry, cparent, cchildren, cname, inflight>>

AddFunctionOf(F) ==
    \E n \in Created, f \in F :
        /\ AddFunctionEffect(n, f)
        /\ last' = Call("add_function", n, f,
                        IF contains_function(Held(n), Fn(f)) THEN 1 ELSE 0,
                        add_function(Held(n), Fn(f)).ret)

AddFunction == AddFunctionOf(Funcs)

RemoveFunctionEffect(n, f) ==
    /\ cfuncs' = remove_function(Held(n), Fn(f)).funcs
    /\ UNCHANGED <<nextGuid, cguid, registry, cparent, cchildren, cname, inflight>>

RemoveFunction ==
    \E n \in Created, f \in Funcs :
        /\ RemoveFunctionEffect(n, f)
        /\ last' = Call("remove_function", n, f,
                        IF contains_function(Held(n), Fn(f)) THEN 1 ELSE 0,
                        remove_function(Held(n), Fn(f)).ret)

AddComponentEffect(p, c) ==
    LET r == add_component(Held(p), Held(c))
    IN  /\ cparent' = r.parent
        /\ cchildren' = r.children
        /\ UNCHANGED <<nextGuid, cguid, registry, cfuncs, cname, inflight>>

AddComponent ==
    \E p \in Created, c \in Created :
        /\ AddComponentEffect(p, c)
        /\ last' = Call("add_component", p, c, ParentGuid(c),
                        add_component(Held(p), Held(c)).ret)

RemoveComponentEffect(p, c) ==
    LET r == remove_component(Held(p), Held(c))
    IN  /\ cparent' = r.parent
        /\ cchildren' = r.children
        /\ UNCHANGED <<nextGuid, cguid, registry, cfuncs, cname, inflight>>

RemoveComponent ==
    \E p \in Created, c \in Created :
        /\ RemoveComponentEffect(p, c)
        /\ last' = Call("remove_component", p, c, ParentGuid(c),
                        remove_component(Held(p), Held(c)).ret)

\* component.name = new_name; the statement yields no result to the caller
Rename ==
    \E n \in Created, new_name \in Names \cup {DefaultName} :
        /\ cname' = name_setter(Held(n), new_name)
        /\ last' = Call("rename", n, 0, name(Held(n)), None)
        /\ UNCHANGED <<nextGuid, cguid, registry, cparent, cchildren, cfuncs, inflight>>

Next ==
    \/ CreateUpTo(MaxMemberNodes)
    \/ Destroy
    \/ AddFunction
    \/ RemoveFunction
    \/ AddComponent
    \/ RemoveComponent

Spec == Init /\ [][Next]_vars

\* the store and the tree operations alone: create, add_component,
\* remove_component and destroy
NextTree ==
    \/ Create
    \/ Destroy
    \/ AddComponent
    \/ RemoveComponent

SpecTree == Init /\ [][NextTree]_vars

\* every operation of the API, renaming included; the functions added are
\* the first MaxNamedFuncs of the database
NextNamed ==
    \/ CreateUpTo(MaxMemberNodes)
    \/ Destroy
    \/ Rename
    \/ AddFunctionOf(1..MaxNamedFuncs)
    \/ RemoveFunction
    \/ AddComponent
    \/ RemoveComponent

SpecNamed == Init /\ [][NextNamed]_vars

\* ------------------------------------------------- what a caller observes
\* the positions of components(y) that hold x, compared with ==
ChildSlots(y, x) ==
    {i \in 1..Len(components(Held(y))) : PyEq(components(Held(y))[i], Held(x))}

IsChildOf(x, y) == ChildSlots(y, x) # {}

HasParent(x, y) == PyEq(parent(Held(x)), Held(y))

RECURSIVE ParentChain(_, _)
\* the GUIDs met by following parent from wrapper w, at most k links
ParentChain(w, k) ==
    IF k = 0 \/ parent(w) = None THEN {}
    ELSE {parent(w).guid} \cup ParentChain(parent(w), k - 1)

Live(n) == get_component(Held(n).guid) # None

\* ---------------------------------------------------------------- C1
\* C1: in every reachable state parent and children agree: x is found in
\* y.components iff x.parent == y, and every node is listed at most once over
\* all the children sequences (so it has at most one parent).
ParentChildrenConsistent ==
    /\ \A x \in Created, y \in Created : IsChildOf(x, y) <=> HasParent(x, y)
    /\ \A x \in Created :
           Cardinality({<<y, i>> \in Created \X (1..MaxNodes) : i \in ChildSlots(y, x)}) <= 1

\* a node with two children, reached by an attach
C1Witness ==
    /\ last.op = "add_component" /\ last.ret
    /\ Len(components(Held(last.self))) = 2
    /\ HasParent(last.arg, last.self)

\* ---------------------------------------------------------------- C2
\* C2: no node is reachable from itself over parent links, and no node holds
\* itself in its subtree.
NoCycles ==
    \A x \in Created :
        /\ Held(x).guid \notin ParentChain(Held(x), MaxNodes + 1)
        /\ ~contains_component(Held(x), Held(x))

\* a chain of three nodes, the deepest tree the bound allows
C2Witness ==
    \E x \in Created : Cardinality(ParentChain(Held(x), MaxNodes + 1)) = 2


\* ---------------------------------------------------------------- C3
\* the parent of every created node, as the caller reads it
Parents == [x \in Created |-> parent(Held(x))]

\* C3: a step that calls self.add_component(child) with child == self, or with
\* self in the subtree of child, returns false and changes nothing: the core
\* state and the parent every node reports are those of before the call.
CycleRejected ==
    [][(/\ last'.op = "add_component"
        /\ \/ PyEq(Held(last'.arg), Held(last'.self))
           \/ contains_component(Held(last'.arg), Held(last'.self)))
       => /\ last'.ret = FALSE
          /\ UNCHANGED core
          /\ Parents' = Parents]_vars

\* A -> B -> C is built and C.add_component(A) has just been refused
C3Witness ==
    /\ last.op = "add_component" /\ ~last.ret
    /\ parent(Held(last.self)) # None
    /\ PyEq(parent(parent(Held(last.self))), Held(last.arg))

\* ---------------------------------------------------------------- C4
\* C4 as stated, read for any two distinct live nodes A and B: after every
\* call A.add_component(B), B.parent == A, A.contains_component(B), and B is
\* listed once in A.components.
AttachAlwaysHolds ==
    (/\ last.op = "add_component"
     /\ last.self # last.arg
     /\ Live(last.self) /\ Live(last.arg))
        => /\ HasParent(last.arg, last.self)
           /\ contains_component(Held(last.self), Held(last.arg))
           /\ Cardinality(ChildSlots(last.self, last.arg)) = 1

\* C4 amended: after every call A.add_component(B) that returned true,
\* B.parent == A, A.contains_component(B), and B is listed exactly once in
\* A.components (also when B was a child of A before the call).
AttachPostcondition ==
    (last.op = "add_component" /\ last.ret)
        => /\ HasParent(last.arg, last.self)
           /\ contains_component(Held(last.self), Held(last.arg))
           /\ Cardinality(ChildSlots(last.self, last.arg)) = 1

\* a successful attach under a node that has another child already
C4Witness ==
    /\ last.op = "add_component" /\ last.ret
    /\ Len(components(Held(last.self))) = 2
    /\ PyEq(components(Held(last.self))[2], Held(last.arg))


\* ---------------------------------------------------------------- C5
\* the nodes that list x among their components
ParentsListing(x) == {y \in Created : IsChildOf(x, y)}

\* C5 as stated, read for three distinct nodes A, B and a live C: whenever B is
\* a child of A, a call C.add_component(B) returns true and afterwards
\* A.contains_component(B) is false, C.contains_component(B) is true and
\* B.parent == C.
ReparentAlways ==
    [][\A c \in Created, b \in Created :
        (/\ last' = Call("add_component", c, b, last'.pre, last'.ret)
         /\ ParentsListing(b) \ {c} # {}
         /\ c # b /\ Live(c))
        => /\ last'.ret
           /\ \A a \in ParentsListing(b) : (~contains_component(Held(a), Held(b)))'
           /\ contains_component(Held(c), Held(b))'
           /\ HasParent(b, c)']_vars

\* C5 amended: whenever B is a child of A and C is a live node other than B and
\* outside B's subtree, C.add_component(B) returns true and afterwards
\* C.contains_component(B) and B.parent == C hold and B is listed by C alone;
\* A.contains_component(B) is false afterwards unless C is A or lies in A's subtree.
ReparentPostcondition ==
    [][\A c \in Created, b \in Created :
        (/\ last' = Call("add_component", c, b, last'.pre, last'.ret)
         /\ ParentsListing(b) # {}
         /\ Live(c)
         /\ ~PyEq(Held(c), Held(b))
         /\ ~contains_component(Held(b), Held(c)))
        => /\ last'.ret
           /\ \A a \in ParentsListing(b) :
                  (~PyEq(Held(a), Held(c)) /\ ~contains_component(Held(a), Held(c)))
                      => (~contains_component(Held(a), Held(b)))'
           /\ contains_component(Held(c), Held(b))'
           /\ HasParent(b, c)'
           /\ ParentsListing(b)' = {c}]_vars

\* B has just been moved from its parent A to another node C
C5Witness ==
    /\ last.op = "add_component" /\ last.ret
    /\ last.pre \notin {0, Held(last.self).guid}
    /\ HasParent(last.arg, last.self)
    /\ ~contains_component(Held(last.pre), Held(last.arg))


\* ---------------------------------------------------------------- C9
\* C9: destroy(N) on a live node returns true, after it no node lists N in its
\* components and lookup(N.guid) is none; destroy on a node already destroyed,
\* and destroy on a node unknown to the store (one it never created), returns
\* false and changes nothing; once lookup(N.guid) is none for a created node
\* it stays none, and a destroy the store refuses makes no lookup succeed.
DestroySemantics ==
    [][/\ \A n \in Nodes :
              last' = Call("destroy", n, last'.arg, last'.pre, last'.ret)
              => IF Live(n)
                 THEN /\ last'.ret
                      /\ (\A p \in Created : ~IsChildOf(n, p))'
                      /\ (get_component(Held(n).guid) = None)'
                 ELSE /\ ~last'.ret
                      /\ UNCHANGED core
                      /\ (get_component(Held(n).guid) = None)'
                      /\ \A m \in Created :
                            /\ Live(m)' = Live(m)
                            /\ parent(Held(m))' = parent(Held(m))
                            /\ components(Held(m))' = components(Held(m))
                            /\ functions(Held(m))' = functions(Held(m))
                            /\ name(Held(m))' = name(Held(m))
       /\ \A n \in Nodes :
              (last' = Call("destroy", n, last'.arg, last'.pre, last'.ret)
                 /\ n \notin Created)
              => ~last'.ret /\ ~Live(n)
       /\ \A n \in Created : ~Live(n) => (~Live(n))']_vars

\* a child has just been destroyed and its former parent keeps another child
C9Witness ==
    /\ last.op = "destroy" /\ last.ret
    /\ last.pre > 0
    /\ ~Live(last.self)
    /\ Len(components(Held(last.pre))) = 1

\* --------------------------------------------------------------- C10
\* the wrappers a caller can get hold of: from create, from lookup, from parent
\* and from iterating components
Wrappers ==
    ({Held(n) : n \in Created}
        \cup {get_component(Held(n).guid) : n \in Created}
        \cup {parent(Held(n)) : n \in Created}
        \cup UNION {Range(components(Held(n))) : n \in Created}) \ {None}

\* C10: two wrappers are == iff their GUIDs are equal, whatever call they came
\* from; != is the negation of ==; lookup(X.guid) == X for every live X; after
\* a successful P.add_component(X), X.parent == P and X.parent != Y for every
\* other node Y.
IdentityByGuid ==
    /\ \A a \in Wrappers, b \in Wrappers :
           /\ PyEq(a, b) <=> (a.guid = b.guid)
           /\ PyNe(a, b) <=> ~PyEq(a, b)
    /\ \A x \in Created : Live(x) => PyEq(get_component(Held(x).guid), Held(x))
    /\ \A a \in Wrappers :
           /\ ~PyEq(a, None) /\ ~PyEq(None, a)
           /\ PyNe(a, None) /\ PyNe(None, a)
    /\ (last.op = "add_component" /\ last.ret)
           => /\ PyEq(parent(Held(last.arg)), Held(last.self))
              /\ \A y \in Created \ {last.self} : PyNe(parent(Held(last.arg)), Held(y))

\* after an attach the wrapper that parent builds is another object than the one
\* the caller holds of the parent, and the two are ==
C10Witness ==
    /\ last.op = "add_component" /\ last.ret
    /\ parent(Held(last.arg)) # Held(last.self)
    /\ PyEq(parent(Held(last.arg)), Held(last.self))
    /\ Cardinality(Created) >= 2


\* ---------------------------------------------------------------- C6
\* what the caller reads: addresses of data variables, and types
DataVarsRead(n, recursive) ==
    {dv.address : dv \in Range(get_referenced_data_variables(Held(n), recursive))}
TypesRead(n, recursive) ==
    {t.handle.type : t \in Range(get_referenced_types(Held(n), recursive))}
\* the functions the caller enumerates on node n
FunctionsOf(n) == {fo.handle.func : fo \in Range(functions(Held(n)))}

\* C6: in every state the non-recursive derived references of a node are the
\* union of what its current direct functions reference; so after a successful
\* remove_function(f) the node no longer contains f, and a data variable or type
\* of f is still reported iff a remaining function of the node references it.
DerivedRefsRecomputed ==
    /\ \A n \in Created :
           /\ DataVarsRead(n, FALSE) = UNION {Range(DataVarsOf(f)) : f \in FunctionsOf(n)}
           /\ TypesRead(n, FALSE) = UNION {Range(TypesOf(f)) : f \in FunctionsOf(n)}
    /\ (last.op = "remove_function" /\ last.pre = 1)
           => /\ last.ret
              /\ ~contains_function(Held(last.self), Fn(last.arg))
              /\ \A d \in Range(DataVarsOf(last.arg)) :
                     d \in DataVarsRead(last.self, FALSE)
                         <=> \E g \in FunctionsOf(last.self) : d \in Range(DataVarsOf(g))
              /\ \A t \in Range(TypesOf(last.arg)) :
                     t \in TypesRead(last.self, FALSE)
                         <=> \E g \in FunctionsOf(last.self) : t \in Range(TypesOf(g))

\* f has just been removed from a node that keeps another function: f's own
\* data variable and type are gone, the ones it shared with the other stay
C6Witness ==
    /\ last.op = "remove_function" /\ last.ret
    /\ FunctionsOf(last.self) # {}
    /\ \E d \in Range(DataVarsOf(last.arg)) : d \notin DataVarsRead(last.self, FALSE)
    /\ \E d \in Range(DataVarsOf(last.arg)) : d \in DataVarsRead(last.self, FALSE)
    /\ \E t \in Range(TypesOf(last.arg)) : t \notin TypesRead(last.self, FALSE)
    /\ \E t \in Range(TypesOf(last.arg)) : t \in TypesRead(last.self, FALSE)


\* ---------------------------------------------------------------- C7
\* node n and the nodes it reports to contain
SubtreeOf(n) == {n} \cup {m \in Created : contains_component(Held(n), Held(m))}

\* C7: the recursive derived references of a node are the duplicate-free union
\* of the non-recursive ones over the node and its subtree, the non-recursive
\* ones cover the node's own functions only; so after a descendant removes f,
\* an ancestor still reports a reference of f iff a function left in the
\* ancestor's subtree references it.
RecursiveAggregation ==
    /\ \A n \in Created :
           /\ TypesRead(n, TRUE) = UNION {TypesRead(m, FALSE) : m \in SubtreeOf(n)}
           /\ DataVarsRead(n, TRUE) = UNION {DataVarsRead(m, FALSE) : m \in SubtreeOf(n)}
           /\ Len(get_referenced_types(Held(n), TRUE)) = Cardinality(TypesRead(n, TRUE))
           /\ Len(get_referenced_data_variables(Held(n), TRUE))
                  = Cardinality(DataVarsRead(n, TRUE))
           /\ TypesRead(n, FALSE) = UNION {Range(TypesOf(f)) : f \in FunctionsOf(n)}
           /\ DataVarsRead(n, FALSE) = UNION {Range(DataVarsOf(f)) : f \in FunctionsOf(n)}
    /\ (last.op = "remove_function" /\ last.ret)
           => \A a \in Created :
                  contains_component(Held(a), Held(last.self))
                  => /\ \A t \in Range(TypesOf(last.arg)) :
                            t \in TypesRead(a, TRUE)
                                <=> \E m \in SubtreeOf(a) : \E g \in FunctionsOf(m) :
                                        t \in Range(TypesOf(g))
                     /\ \A d \in Range(DataVarsOf(last.arg)) :
                            d \in DataVarsRead(a, TRUE)
                                <=> \E m \in SubtreeOf(a) : \E g \in FunctionsOf(m) :
                                        d \in Range(DataVarsOf(g))

\* A -> B -> C with a function on C alone: A reports its type recursively and
\* not otherwise
C7Witness ==
    \E a \in Created, b \in Created, c \in Created :
        /\ HasParent(c, b) /\ HasParent(b, a)
        /\ FunctionsOf(a) = {} /\ FunctionsOf(b) = {}
        /\ \E f \in FunctionsOf(c) :
               /\ f \in TypesRead(a, TRUE)
               /\ f \notin TypesRead(a, FALSE)

\* ---------------------------------------------------------------- C8
\* the positions of functions(n) that hold f
FunctionSlots(n, f) ==
    {i \in 1..Len(functions(Held(n))) : functions(Held(n))[i].handle.func = f}

\* C8: add_function(f) on a live node returns true, leaves contains_function(f)
\* true and f listed exactly once in functions; when f was a member already the
\* call returns true and the state after it is the state before it.
AddFunctionIdempotent ==
    [][\A n \in Created, f \in Funcs :
        /\ (Live(n) /\ contains_function(Held(n), Fn(f)))
               => add_function(Held(n), Fn(f)) = [ret |-> TRUE, funcs |-> cfuncs]
        /\ (last' = Call("add_function", n, f, last'.pre, last'.ret) /\ Live(n))
               => /\ last'.ret
                  /\ contains_function(Held(n), Fn(f))'
                  /\ Cardinality(FunctionSlots(n, f))' = 1
                  /\ contains_function(Held(n), Fn(f)) => UNCHANGED core]_vars

\* add_function(f) has just been called on a node that held f already, next to
\* another function
C8Witness ==
    /\ last.op = "add_function" /\ last.pre = 1 /\ last.ret
    /\ Len(functions(Held(last.self))) = 2
    /\ contains_function(Held(last.self), Fn(last.arg))


\* ------------------------------------------------------------------ C11
\* what a caller reads from node n through the wrapper's queries
ReadsEmpty(n) ==
    /\ parent(Held(n)) = None
    /\ components(Held(n)) = <<>>
    /\ functions(Held(n)) = <<>>
    /\ name(Held(n)) = DefaultName
    /\ \A f \in Funcs : ~contains_function(Held(n), Fn(f))
    /\ \A m \in Created : ~contains_component(Held(n), Held(m))
    /\ \A recursive \in BOOLEAN :
          /\ get_referenced_data_variables(Held(n), recursive) = <<>>
          /\ get_referenced_types(Held(n), recursive) = <<>>

MutatingOps == {"add_function", "remove_function", "add_component",
                "remove_component", "rename"}

\* C11: a call of add_function, remove_function, add_component,
\* remove_component or the name setter on a destroyed node, or of
\* add_component / remove_component with a destroyed node as the argument,
\* reports failure (the setter reports nothing) and changes nothing in the
\* store; every query on a destroyed node returns the empty result.
UseAfterDestroy ==
    [][/\ \A n \in Created : (~Live(n)) => ReadsEmpty(n)
       /\ (/\ last'.op \in MutatingOps
           /\ \/ ~Live(last'.self)
              \/ /\ last'.op \in {"add_component", "remove_component"}
                 /\ ~Live(last'.arg))
          => /\ UNCHANGED core
             /\ last'.ret = IF last'.op = "rename" THEN None ELSE FALSE]_vars

\* a node with a name, a child and a function outlives a failed
\* add_function on a destroyed node
C11Witness ==
    /\ last.op = "add_function"
    /\ ~Live(last.self)
    /\ \E m \in Created :
          /\ Live(m)
          /\ FunctionsOf(m) # {}
          /\ name(Held(m)) # DefaultName
          /\ components(Held(m)) # <<>>


\* ------------------------------------------------------------------ C12
\* C12: remove_function(f) on a node that does not hold f (a fresh node
\* included) and remove_component(c) on a node of which c is not a direct
\* child (a deeper descendant included) return false and change nothing.
NotFoundNoOp ==
    [][/\ \A n \in Created, f \in Funcs :
             (/\ last' = Call("remove_function", n, f, last'.pre, last'.ret)
              /\ ~contains_function(Held(n), Fn(f)))
             => /\ ~last'.ret
                /\ UNCHANGED core
                /\ functions(Held(n))' = functions(Held(n))
       /\ \A p \in Created, c \in Created :
             (/\ last' = Call("remove_component", p, c, last'.pre, last'.ret)
              /\ ~IsChildOf(c, p))
             => /\ ~last'.ret
                /\ UNCHANGED core
                /\ Parents' = Parents
                /\ components(Held(p))' = components(Held(p))]_vars

\* remove_component was refused for a grandchild while some node holds a
\* function
C12Witness ==
    /\ last.op = "remove_component"
    /\ ~last.ret
    /\ Live(last.self) /\ Live(last.arg)
    /\ contains_component(Held(last.self), Held(last.arg))
    /\ ~IsChildOf(last.arg, last.self)
    /\ \E n \in Created : FunctionsOf(n) # {}


\* ------------------------------------------------------------------ C13
\* the GUIDs of a sequence of wrappers, in order
GuidsOf(ws) == [k \in 1..Len(ws) |-> ws[k].guid]

\* the node itself and the nodes that contain it
SelfAndAncestors(p) ==
    {p} \cup {a \in Created : contains_component(Held(a), Held(p))}

\* the tree operations on up to MaxNodes components (a parent can hold three
\* children, so that two siblings remain after a detach), with the first
\* MaxNamedFuncs functions of the database as members
NextSiblings ==
    \/ Create
    \/ Destroy
    \/ AddFunctionOf(1..MaxNamedFuncs)
    \/ AddComponent
    \/ RemoveComponent

SpecSiblings == Init /\ [][NextSiblings]_vars

\* C13: remove_component(child), called on the node that lists child among
\* its components, returns true; afterward child.parent is None and
\* contains_component(child) is false for the former parent and for every
\* node that contains the former parent.  The child's own subtree, the
\* order of the remaining siblings, every other node's parent and
\* components, and all function members and names are unchanged.
DetachPostcondition ==
    [][(last'.op = "remove_component") =>
       \A p \in Created, c \in Created :
          (/\ last' = Call("remove_component", p, c, last'.pre, last'.ret)
           /\ IsChildOf(c, p))
          => /\ last'.ret
             /\ parent(Held(c))' = None
             /\ \A a \in SelfAndAncestors(p) :
                   ~contains_component(Held(a), Held(c))'
             /\ GuidsOf(components(Held(p)))'
                   = Without(GuidsOf(components(Held(p))), Held(c).guid)
             /\ \A m \in Created \ {p} :
                   components(Held(m))' = components(Held(m))
             /\ \A m \in Created \ {c} : Parents[m]' = Parents[m]
             /\ \A m \in Created :
                   /\ functions(Held(m))' = functions(Held(m))
                   /\ name(Held(m))' = name(Held(m))
                   /\ Live(m)' = Live(m)
                   /\ Held(m).guid' = Held(m).guid
             /\ SubtreeOf(c)' = SubtreeOf(c)]_vars

\* a child with a function of its own was detached from a parent of three:
\* the two siblings that remain are listed in the order they were attached,
\* which is not the order of their GUIDs, and one of them has a function
C13Witness ==
    /\ last.op = "remove_component"
    /\ last.ret
    /\ FunctionsOf(last.arg) # {}
    /\ parent(Held(last.arg)) = None
    /\ Len(components(Held(last.self))) = 2
    /\ components(Held(last.self))[1].guid > components(Held(last.self))[2].guid
    /\ \E k \in 1..2 : FunctionsOf(components(Held(last.self))[k].handle.comp) # {}


\* ------------------------------------------------------------------ C14
\* C14: create returns a node whose GUID differs from the GUID of every node
\* created before, with no parent, no children and no function references;
\* no operation (rename, membership change, attach, detach, destroy)
\* changes the GUID of a node; lookup of a GUID returns the node created
\* with it from its creation until a destroy takes it out of the store, and
\* None before that and ever after.
StoreRegistry ==
    [][/\ \A n \in Nodes :
             (last' = Call("create", n, last'.arg, last'.pre, last'.ret))
             => /\ \A m \in Created : Held(m).guid # Held(n).guid'
                /\ get_component(Held(n).guid) = None
                /\ PyEq(get_component(Held(n).guid), Held(n))'
                /\ parent(Held(n))' = None
                /\ components(Held(n))' = <<>>
                /\ functions(Held(n))' = <<>>
       /\ \A n \in Created :
             /\ Held(n).guid' = Held(n).guid
             /\ Live(n) => /\ PyEq(get_component(Held(n).guid), Held(n))
                           /\ get_component(Held(n).guid).handle.comp = n
             /\ (~Live(n)) => ~Live(n)'
             /\ (Live(n) /\ ~Live(n)')
                => \E d \in Created :
                      /\ last' = Call("destroy", d, last'.arg, last'.pre, last'.ret)
                      /\ \/ d = n
                         \/ last'.arg = 1 /\ contains_component(Held(d), Held(n))
       /\ \A d \in Created :
             (last' = Call("destroy", d, last'.arg, last'.pre, last'.ret))
             => ~Live(d)'
       /\ \A g \in Nodes \ {Held(n).guid : n \in Created} :
             get_component(g) = None]_vars

\* a renamed node that was attached, given a function and detached again is
\* still found under the GUID it was created with
C14Witness ==
    /\ last.op = "remove_component"
    /\ last.ret
    /\ name(Held(last.arg)) # DefaultName
    /\ FunctionsOf(last.arg) # {}
    /\ get_component(Held(last.arg).guid) # None
    /\ \E m \in Created : ~Live(m)


\* ------------------------------------------------------------------ C15
\* C15: contains_function(f) on a node becomes true only by a successful
\* add_function(f) on that node and false only by remove_function(f) on that
\* node or by the destroy that takes the node out of the store, so it never
\* follows what a descendant or an ancestor holds; add_function,
\* remove_function and destroy leave the functions of every node they are
\* not called on (and do not destroy) as they were; a function held by
\* several nodes stays held by the others, and every function of the
\* database can still be added to a live node.
DirectNonOwningMembership ==
    [][\A m \in Created :
          LET before == functions(Held(m))
              after == functions(Held(m))'
              destroyed == last'.op = "destroy" /\ Live(m) /\ ~Live(m)'
              called(op) == last'.op = op /\ last'.self = m
          IN  /\ (after # before)
                 => \/ called("add_function")
                    \/ called("remove_function")
                    \/ destroyed
              /\ \A f \in Funcs :
                    LET was == contains_function(Held(m), Fn(f))
                        is == contains_function(Held(m), Fn(f))'
                    IN  /\ (~was /\ is)
                           => called("add_function") /\ last'.arg = f /\ last'.ret
                        /\ (was /\ ~is)
                           => \/ called("remove_function") /\ last'.arg = f
                              \/ destroyed
                        /\ (called("add_function") /\ last'.arg = f /\ Live(m)) => is
                        /\ (called("remove_function") /\ last'.arg = f) => ~is
                        /\ Live(m) => add_function(Held(m), Fn(f)).ret]_vars

\* C15 as stated, for every node other than the one the call is made on: its
\* functions are the same before and after add_function, remove_function
\* and destroy (a recursive destroy of an ancestor empties them)
OtherFunctionSetsUntouched ==
    [][\A n \in Created, m \in Created :
          (/\ last'.op \in {"add_function", "remove_function", "destroy"}
           /\ last'.self = n
           /\ m # n)
          => functions(Held(m))' = functions(Held(m))]_vars
\* two live nodes, one inside the other, hold the same function, the inner
\* one holds a function the outer one does not, and a third node has just
\* been destroyed
C15Witness ==
    /\ last.op = "destroy"
    /\ last.ret
    /\ \E a \in Created, b \in Created :
          /\ contains_component(Held(a), Held(b))
          /\ \E f \in Funcs, g \in Funcs :
                /\ contains_function(Held(a), Fn(f))
                /\ contains_function(Held(b), Fn(f))
                /\ contains_function(Held(b), Fn(g))
                /\ ~contains_function(Held(a), Fn(g))


\* ------------------------------------------------------------------ C16
RECURSIVE WalkComponents(_, _)
\* the GUIDs met by iterating `components` of w, of each wrapper it yields,
\* and so on, k levels deep
WalkComponents(w, k) ==
    IF k = 0 THEN {}
    ELSE UNION {{c.guid} \cup WalkComponents(c, k - 1) : c \in Range(components(w))}

SubtreeGuids(n) == WalkComponents(Held(n), MaxNodes)

\* C16 as stated: N contains other, and the subtree holding other (rooted
\* at a node c below N) is detached by its parent, or re-parented elsewhere
\* (attached by a node that is not N and not in N's subtree); afterwards
\* contains_component(other) is false for N and for every ancestor of N.
DetachedFalseForAncestors ==
    [][(last'.op \in {"remove_component", "add_component"} /\ last'.ret) =>
       \A p \in Created, c \in Created :
          (last' = Call(last'.op, p, c, last'.pre, last'.ret)) =>
          \A x \in SubtreeOf(c), n \in Created \ SubtreeOf(c) :
             (/\ contains_component(Held(n), Held(x))
              /\ (last'.op = "add_component")
                    => /\ ~IsChildOf(c, p)
                       /\ ~PyEq(Held(n), Held(p))
                       /\ ~contains_component(Held(n), Held(p)))
             => \A a \in SelfAndAncestors(n) :
                   ~contains_component(Held(a), Held(x))']_vars

\* C16 amended: contains_component(other) on N is true iff other's GUID is
\* met in N's subtree (child, grandchild or deeper), whichever call the
\* wrapper of other came from, and false for every node outside the subtree.
\* Once the subtree holding other is detached, contains_component(other) is
\* false for N and for every ancestor of N.  Once it is re-parented under a
\* node Q, it is false for N unless Q is N or in N's subtree, and false for
\* an ancestor of N unless Q is that ancestor or in its subtree, in which
\* case the ancestor still contains other.
ContainsIsSubtreeMembership ==
    [][/\ \A n \in Created, w \in Wrappers :
             contains_component(Held(n), w) <=> w.guid \in SubtreeGuids(n)
       /\ (last'.op \in {"remove_component", "add_component"} /\ last'.ret) =>
          \A p \in Created, c \in Created :
             (last' = Call(last'.op, p, c, last'.pre, last'.ret)) =>
             \A x \in SubtreeOf(c), n \in Created \ SubtreeOf(c) :
                contains_component(Held(n), Held(x))
                => \A a \in SelfAndAncestors(n) :
                      IF last'.op = "remove_component"
                      THEN ~contains_component(Held(a), Held(x))'
                      ELSE IF PyEq(Held(a), Held(p)) \/ contains_component(Held(a), Held(p))
                      THEN contains_component(Held(a), Held(x))'
                      ELSE ~contains_component(Held(a), Held(x))']_vars

\* from A -> N -> C, C was re-parented under a node Q outside A's tree: N and
\* its ancestor A both contained C and neither does any longer, Q does
C16Witness ==
    /\ last.op = "add_component"
    /\ last.ret
    /\ last.pre \notin {0, last.self}
    /\ parent(Held(last.pre)) # None
    /\ ~contains_component(Held(last.pre), Held(last.arg))
    /\ ~contains_component(parent(Held(last.pre)), Held(last.arg))
    /\ ~contains_component(parent(Held(last.pre)), Held(last.self))
    /\ contains_component(Held(last.self), get_component(Held(last.arg).guid))


\* ------------------------------------------------------------------ C17
\* the lifecycle state of a node, as a caller observes it: whether lookup
\* finds it, what its parent is and which nodes list it
LifecycleOf(n) ==
    LET live == Live(n)
        par == parent(Held(n))
        listing == ParentsListing(n)
    IN  IF live /\ par = None /\ listing = {} THEN "unattached"
        ELSE IF live /\ par # None /\ listing = {par.guid} THEN "attached"
        ELSE IF ~live /\ par = None /\ listing = {} THEN "destroyed"
        ELSE "none"

Unattached(n) == LifecycleOf(n) = "unattached"
Attached(n) == LifecycleOf(n) = "attached"
Destroyed(n) == LifecycleOf(n) = "destroyed"

\* C17: every created node is unattached, attached or destroyed; create
\* yields unattached, a successful add_component naming the node as child
\* yields attached, remove_component by its parent yields unattached and
\* destroy yields destroyed; a destroyed node stays destroyed under every
\* operation: it has no parent, is listed by no node and lookup does not
\* return it.
LifecycleStateMachine ==
    [][/\ \A n \in Created :
             LET now == LifecycleOf(n)
                 after == LifecycleOf(n)'
                 named(op) == last'.op = op /\ last'.arg = n /\ last'.ret
             IN  /\ now \in {"unattached", "attached", "destroyed"}
                 /\ (now = "destroyed") => after = "destroyed"
                 /\ named("add_component")
                    => /\ after = "attached"
                       /\ \E p \in Created : p = last'.self /\ HasParent(n, p)'
                 /\ named("remove_component")
                    => now = "attached" /\ HasParent(n, last'.self) /\ after = "unattached"
                 /\ (last'.op = "destroy" /\ last'.self = n /\ last'.ret)
                    => after = "destroyed"
       /\ \A n \in Nodes :
             (last'.op = "create" /\ last'.self = n) => Unattached(n)']_vars

\* add_component naming a destroyed node was refused while another node is
\* attached and renamed
C17Witness ==
    /\ last.op = "add_component"
    /\ ~last.ret
    /\ Destroyed(last.arg)
    /\ Live(last.self)
    /\ \E m \in Created : Attached(m) /\ name(Held(m)) # DefaultName


\* ------------------------------------------------------------------ C18
\* The generators behind `components` and `functions`, one step at a time.
\* SubComponentIterator.__iter__ / FunctionIterator.__iter__ on entry: the
\* core is asked for the array and its count
IterFetch(kind, comp) ==
    IF kind = "components"
    THEN BNComponentGetContainedComponents(comp.handle)
    ELSE BNComponentGetContainedFunctions(comp.handle)

\* the value yielded for index i of the loop (bn_components[i], bn_functions[i])
IterEntry(kind, view, array, i) ==
    IF kind = "components"
    THEN Component(view, array[i + 1])
    ELSE Function(view, array[i + 1])

\* mutant of IterArray: the core is asked again at every step
IterArray_refetched(itr) == IterFetch(itr.kind, itr.comp)
\* count and bn_components / bn_functions, the locals of the suspended generator
IterArray(itr) == [count |-> itr.count, array |-> itr.array]

\* what names an entry: the GUID of a component, the function itself
EntryId(kind, w) == IF kind = "components" THEN w.guid ELSE w.handle.func

\* the direct children / direct functions the node has now, in order
IterListing(kind, comp) ==
    IF kind = "components"
    THEN [k \in 1..Len(components(comp)) |-> EntryId(kind, components(comp)[k])]
    ELSE [k \in 1..Len(functions(comp)) |-> EntryId(kind, functions(comp)[k])]

YieldedIds(itr) == [k \in 1..Len(itr.yielded) |-> EntryId(itr.kind, itr.yielded[k])]

\* component.components / component.functions: the property builds the
\* iterator; the body of the generator has not run yet
IterOpen ==
    \E n \in Created, kind \in {"components", "functions"} :
        /\ it' = [state |-> "created", kind |-> kind, view |-> Held(n).view,
                  comp |-> Held(n), count |-> 0, array |-> <<>>, i |-> 0,
                  yielded |-> <<>>, atStart |-> <<>>]
        /\ UNCHANGED <<core, last, dvArray>>

\* next(iterator): the first call enters the body and fetches the array;
\* every call yields the entry at index i, or ends the iteration when
\* i has reached count
IterNext ==
    /\ it.state \in {"created", "suspended"}
    /\ LET first == it.state = "created"
           r == IF first THEN IterFetch(it.kind, it.comp) ELSE IterArray(it)
           start == IF first THEN IterListing(it.kind, it.comp) ELSE it.atStart
       IN  IF it.i < r.count
           THEN it' = [it EXCEPT !.state = "suspended",
                                 !.count = r.count, !.array = r.array,
                                 !.atStart = start, !.i = it.i + 1,
                                 !.yielded = Append(it.yielded,
                                     IterEntry(it.kind, it.view, r.array, it.i))]
           ELSE it' = [it EXCEPT !.state = "done",
                                 !.count = r.count, !.array = r.array,
                                 !.atStart = start]
    /\ UNCHANGED <<core, last, dvArray>>

\* The calls made while an iteration is in progress, from the body of the
\* loop or by any other caller: the effect of each call, on any node and
\* with any function of the database; nothing is kept of what they return.
LoopCreate == CreateEffect(MaxMemberNodes) /\ UNCHANGED last

LoopDestroy ==
    \E n \in Nodes, recursive \in BOOLEAN :
        DestroyEffect(n, recursive) /\ UNCHANGED last

LoopAddFunction ==
    \E n \in Created, f \in Funcs : AddFunctionEffect(n, f) /\ UNCHANGED last

LoopRemoveFunction ==
    \E n \in Created, f \in Funcs : RemoveFunctionEffect(n, f) /\ UNCHANGED last

LoopAddComponent ==
    \E p \in Created, c \in Created : AddComponentEffect(p, c) /\ UNCHANGED last

LoopRemoveComponent ==
    \E p \in Created, c \in Created : RemoveComponentEffect(p, c) /\ UNCHANGED last

\* the six operations with an iteration in progress
NextIter ==
    \/ LoopCreate
    \/ LoopDestroy
    \/ LoopAddFunction
    \/ LoopRemoveFunction
    \/ LoopAddComponent
    \/ LoopRemoveComponent
    \/ IterOpen
    \/ IterNext

SpecIter == Init /\ [][NextIter]_vars

\* C18: an iteration over components (or functions) yields the direct
\* children (direct functions) the node had when the iteration started, each
\* once and in insertion order, whatever is added to or removed from the
\* node while it runs: what has been yielded is always a prefix of that
\* listing, every step either yields the next entry or ends the iteration,
\* and the iteration ends exactly when the whole listing has been yielded.
\* An iteration opened later starts from the listing of its own start.
IterationSnapshot ==
    [][/\ it.state \in {"suspended", "done"}
          => /\ Len(it.yielded) <= Len(it.atStart)
             /\ YieldedIds(it) = SubSeq(it.atStart, 1, Len(it.yielded))
             /\ \A j \in 1..Len(it.atStart), k \in 1..Len(it.atStart) :
                   it.atStart[j] = it.atStart[k] => j = k
       /\ it.state = "done" => YieldedIds(it) = it.atStart
       /\ (it.state = "created" /\ it'.state \in {"suspended", "done"})
          => it'.atStart = IterListing(it.kind, it.comp)
       /\ (it.state = "suspended" /\ it' # it /\ it'.state # "created")
          => /\ it'.atStart = it.atStart
             /\ IF Len(it.yielded) < Len(it.atStart)
                THEN /\ it'.state = "suspended"
                     /\ Len(it'.yielded) = Len(it.yielded) + 1
                ELSE it'.state = "done" /\ it'.yielded = it.yielded]_vars

\* an iteration over the two functions of a live node has ended after each
\* yielded function was taken out of the node inside the loop: both were
\* yielded, in the order they had been added, and the node has none left
C18Witness ==
    /\ it.state = "done"
    /\ it.kind = "functions"
    /\ YieldedIds(it) = <<2, 1>>
    /\ functions(it.comp) = <<>>
    /\ Live(it.comp.handle.comp)


\* ------------------------------------------------------------------ C20
\* get_referenced_data_variables, statement by statement.  What happens to
\* the array the core hands out is kept as a sequence of events: the core
\* call, each read of an entry, the release, and the way the call ends.
Exception == [kind |-> "Exception"]

GotArray(count) == [ev |-> "get", at |-> count]
ReadEntry(i) == [ev |-> "read", at |-> i]
FreeDataVariables(count) == [ev |-> "free", at |-> count]
Ended(how) == [ev |-> how, at |-> 0]

\* mutant of GrdvFinally: the release follows the loop without try/finally
GrdvFinally_after_loop(raised, count) ==
    IF raised THEN <<>> ELSE <<FreeDataVariables(count)>>
\* finally: core.BNFreeDataVariables(bn_data_vars, count.value)
GrdvFinally(raised, count) == <<FreeDataVariables(count)>>

\* failAt is the entry (1..count) whose conversion by
\* DataVariable.from_core_struct raises, 0 when none does
get_referenced_data_variables_run(self, recursive, failAt) ==
    LET r == IF recursive
             THEN BNComponentGetReferencedDataVariablesRecursive(self.handle)
             ELSE BNComponentGetReferencedDataVariables(self.handle)
        raised == failAt \in 1..r.count
        reads == IF raised THEN failAt ELSE r.count
        data_vars == [k \in 1..(IF raised THEN failAt - 1 ELSE r.count) |->
                         DataVariable_from_core_struct(r.array[k], self.view)]
    IN  [count |-> r.count,
         ret |-> IF raised THEN Exception ELSE data_vars,
         events |-> <<GotArray(r.count)>>
                    \o [k \in 1..reads |-> ReadEntry(k)]
                    \o GrdvFinally(raised, r.count)
                    \o <<Ended(IF raised THEN "raise" ELSE "return")>>]

\* component.get_referenced_data_variables(recursive), with or without a
\* conversion that raises
GetReferencedDataVariables ==
    \E n \in Created, recursive \in BOOLEAN :
        \E failAt \in 0..get_referenced_data_variables_run(Held(n), recursive, 0).count :
            LET run == get_referenced_data_variables_run(Held(n), recursive, failAt)
            IN  /\ dvArray' = [count |-> run.count, events |-> run.events]
                /\ last' = Call("get_referenced_data_variables", n,
                                IF recursive THEN 1 ELSE 0, failAt, run.ret)
                /\ UNCHANGED <<core, it>>

\* building a tree with functions and asking for its data variables; the
\* functions added are the first MaxNamedFuncs of the database
NextRefs ==
    \/ CreateUpTo(MaxMemberNodes)
    \/ AddFunctionOf(1..MaxNamedFuncs)
    \/ AddComponent
    \/ GetReferencedDataVariables

SpecRefs == Init /\ [][NextRefs]_vars

EventsAt(what) == {k \in 1..Len(dvArray.events) : dvArray.events[k].ev = what}

\* C20: every call of get_referenced_data_variables, recursive or not,
\* releases the array it got from the core exactly once, with the count the
\* core reported, before it returns or raises, also when the conversion of
\* an entry raises part-way and when the count is zero; every read of an
\* entry precedes the release.  A call in which no conversion raises
\* returns the converted entries.
ArrayReleasedOnce ==
    (last.op = "get_referenced_data_variables")
    => /\ Cardinality(EventsAt("get")) = 1
       /\ dvArray.events[1] = GotArray(dvArray.count)
       /\ dvArray.count = Len(get_referenced_data_variables(Held(last.self), last.arg = 1))
       /\ Cardinality(EventsAt("free")) = 1
       /\ \A k \in EventsAt("free") :
             /\ dvArray.events[k] = FreeDataVariables(dvArray.count)
             /\ k = Len(dvArray.events) - 1
             /\ \A j \in EventsAt("read") : j < k
       /\ dvArray.events[Len(dvArray.events)].ev
             = IF last.pre = 0 THEN "return" ELSE "raise"
       /\ [j \in 1..Cardinality(EventsAt("read")) |-> dvArray.events[j + 1].at]
             = [j \in 1..(IF last.pre = 0 THEN dvArray.count ELSE last.pre) |-> j]
       /\ IF last.pre = 0
          THEN last.ret = get_referenced_data_variables(Held(last.self), last.arg = 1)
          ELSE last.ret = Exception

\* the first entry of the array was converted and the conversion of the
\* second one raised
C20Witness ==
    /\ last.op = "get_referenced_data_variables"
    /\ dvArray.count >= 2
    /\ last.pre = 2
    /\ last.ret = Exception
    /\ EventsAt("free") # {}

====
